---- MODULE Spec2Model ----
(***************************************************************************)
(* Model of the SSE event assembler (type Stream: Recv, buildEvent,        *)
(* resetState, Close, NewStreamWithConfig) reading fields from the field   *)
(* tokenizer (parser.Parser).  Strings are sequences of characters.        *)
(***************************************************************************)
EXTENDS Integers, Sequences, FiniteSets, TLC

\* ---------------------------------------------------------------- bounds
\* Most fields the tokenizer delivers before its terminal condition.
MaxFields == 3
\* Most calls of parser.Next made after the tokenizer became terminal.
MaxPostCalls == 1
\* Most calls of Stream.Close.
MaxCloseCalls == 2
\* Largest absolute value of StreamConfig.MaxEventSize tried.
MaxConfigSize == 50

\* ------------------------------------------------------------ characters
NUL == "NUL"
LF == "\n"

\* ------------------------------------------------- tokenizer (parser pkg)
FieldNameData == "data"
FieldNameEvent == "event"
FieldNameID == "id"
FieldNameRetry == "retry"
\* A comment line and a blank line (dispatch boundary, empty name).
FieldNameComment == ":"
FieldNameBoundary == ""
\* A name the assembler does not recognize.
FieldNameUnknown == "foo"

Field(n, v) == [Name |-> n, Value |-> v]

\* The field records parser.Next can write into its out parameter.
Fields ==
    {Field(FieldNameData, v) : v \in {<<>>, <<"a">>}}
    \cup {Field(FieldNameEvent, v) : v \in {<<>>, <<"a">>}}
    \cup {Field(FieldNameID, v) : v \in {<<>>, <<"a">>, <<"a", NUL>>}}
    \cup {Field(FieldNameRetry, v) : v \in {<<"1">>, <<"a">>}}
    \cup {Field(FieldNameComment, <<"a">>),
          Field(FieldNameBoundary, <<>>),
          Field(FieldNameUnknown, <<"a">>)}

\* Terminal conditions parser.Err reports once parser.Next returned false.
ErrEOF == "io.EOF"
ErrUnexpectedEOF == "parser.ErrUnexpectedEOF"
ErrTooLong == "ErrTooLong"
ErrIO == "ErrIO"
ParserErrs == {ErrEOF, ErrUnexpectedEOF, ErrTooLong, ErrIO}

\* Results of the byte source's Close.
CloseResults == {"nil", "ErrClose"}

\* ----------------------------------------------------------------- state
VARIABLES
    lastEventID,  \* Stream.lastEventID
    closed,       \* Stream.closed
    typ,          \* Stream.typ
    sb,           \* Stream.sb (contents of the strings.Builder)
    dirty,        \* Stream.dirty
    perr,         \* parser.Err(): "none" until parser.Next returned false
    consumed,     \* fields parser.Next has delivered so far, in order
    nextCalls,    \* number of parser.Next calls made so far
    readerCloses, \* results of the Close calls made on the byte source
    closeOps,     \* number of Stream.Close calls made so far
    pc,           \* "idle" between calls, "recv" inside the loop of Recv
    ret,          \* result of the last call that returned
    events,       \* events returned by Recv so far, in order
    cuts,         \* Len(consumed) at the return of each of those events
    exhausted,    \* Recv has returned io.EOF on the parser.Next path
    cfg,          \* the *StreamConfig given to the constructor
    maxEventSize  \* the size limit of the tokenizer's buffer

vars == <<lastEventID, closed, typ, sb, dirty, perr, consumed, nextCalls,
          readerCloses, closeOps, pc, ret, events, cuts, exhausted, cfg,
          maxEventSize>>

assembler == <<lastEventID, typ, sb, dirty>>
tokenizer == <<perr, consumed, nextCalls>>
history == <<events, cuts, exhausted>>
config == <<cfg, maxEventSize>>

\* The limit the tokenizer starts with: 64KB.
DefaultMaxEventSize == 65536

\* A nil *StreamConfig, and a StreamConfig with MaxEventSize n.
NilConfig == [isNil |-> TRUE, MaxEventSize |-> 0]
StreamConfig(n) == [isNil |-> FALSE, MaxEventSize |-> n]
Configs == {NilConfig} \cup {StreamConfig(n) : n \in -MaxConfigSize..MaxConfigSize}

\* parser.Next can return true: no terminal condition has been reported yet
\* (and the input still has a field within the bound).
ParserHasField == perr = "none" /\ Len(consumed) < MaxFields

\* parser.Next returns false with parser.Err() = err: the input ends here, or
\* it ended before with this same condition, which stays.
ParserEnds(err) == perr = "none" \/ perr = err

\* Event{}
EmptyEvent == [LastEventID |-> <<>>, Type |-> <<>>, Data |-> <<>>]

Returned(op, ev, err) == [op |-> op, event |-> ev, err |-> err]

\* ------------------------------------------------------ pure helpers
\* Variant: the null-byte test is left out, every id value is accepted.
NoNullByte_Skipped(v) == TRUE

\* strings.IndexByte(v, 0) == -1
NoNullByte(v) == \A i \in 1..Len(v) : v[i] # NUL

Digits == {"0", "1", "2", "3", "4", "5", "6", "7", "8", "9"}

\* Variant: the result of the parse is not looked at.
ParseIntOk_AcceptsAll(v) == TRUE

\* strconv.ParseInt(v, 10, 64) returns err == nil
ParseIntOk(v) ==
    LET body == IF Len(v) > 0 /\ v[1] \in {"+", "-"} THEN Tail(v) ELSE v
    IN  Len(body) > 0 /\ \A i \in 1..Len(body) : body[i] \in Digits

\* Variant: the separator is written before the value.
WriteData_SeparatorFirst(v) == sb \o <<LF>> \o v

\* s.sb.WriteString(v); s.sb.WriteByte('\n')
WriteData(v) == sb \o v \o <<LF>>

\* Variant: the trailing newline is not removed.
buildEvent_NoTrim ==
    [LastEventID |-> lastEventID, Type |-> typ, Data |-> sb]

\* Stream.buildEvent
buildEvent ==
    LET data == IF sb # <<>> THEN SubSeq(sb, 1, Len(sb) - 1) ELSE sb
    IN  [LastEventID |-> lastEventID, Type |-> typ, Data |-> data]

\* Variant: the reset also clears the last event id.
resetState_ClearsID ==
    /\ sb' = <<>>
    /\ typ' = <<>>
    /\ dirty' = FALSE
    /\ lastEventID' = <<>>

\* Variant: the reset leaves the pending type in place.
resetState_KeepsType ==
    /\ sb' = <<>>
    /\ dirty' = FALSE
    /\ UNCHANGED <<typ, lastEventID>>

\* Variant: the reset leaves dirty set.
resetState_KeepsDirty ==
    /\ sb' = <<>>
    /\ typ' = <<>>
    /\ UNCHANGED <<dirty, lastEventID>>

\* Variant: the reset leaves the data buffer as it is.
resetState_KeepsData ==
    /\ typ' = <<>>
    /\ dirty' = FALSE
    /\ UNCHANGED <<sb, lastEventID>>

\* Stream.resetState
resetState ==
    /\ sb' = <<>>
    /\ typ' = <<>>
    /\ dirty' = FALSE
    /\ UNCHANGED lastEventID

\* return event, nil after buildEvent and resetState
YieldEvent ==
    /\ ret' = Returned("Recv", buildEvent, "nil")
    /\ events' = Append(events, buildEvent)
    /\ cuts' = Append(cuts, Len(consumed'))
    /\ resetState
    /\ pc' = "idle"
    /\ UNCHANGED exhausted

\* The loop of Recv goes on with the next field.
Continue ==
    /\ pc' = "recv"
    /\ UNCHANGED <<ret, history>>

\* ------------------------------------------------------------------ Init
\* NewStreamWithConfig: a Stream with reader and parser set, the rest zero.
Init ==
    /\ lastEventID = <<>>
    /\ closed = FALSE
    /\ typ = <<>>
    /\ sb = <<>>
    /\ dirty = FALSE
    /\ perr = "none"
    /\ consumed = <<>>
    /\ nextCalls = 0
    /\ readerCloses = <<>>
    /\ closeOps = 0
    /\ pc = "idle"
    /\ ret = Returned("none", EmptyEvent, "nil")
    /\ events = <<>>
    /\ cuts = <<>>
    /\ exhausted = FALSE
    /\ cfg = NilConfig
    /\ maxEventSize = DefaultMaxEventSize

\* --------------------------------------------------------------- actions
\* Variant: the closed guard is missing and Recv enters its loop.
RecvClosed_NoGuard ==
    /\ UNCHANGED config
    /\ pc = "idle"
    /\ closed
    /\ pc' = "recv"
    /\ UNCHANGED <<assembler, closed, tokenizer, readerCloses, closeOps, ret,
                   history>>

\* Recv on a closed stream: return Event{}, io.EOF.
RecvClosed ==
    /\ UNCHANGED config
    /\ pc = "idle"
    /\ closed
    /\ ret' = Returned("Recv", EmptyEvent, ErrEOF)
    /\ UNCHANGED <<assembler, closed, tokenizer, readerCloses, closeOps, pc,
                   history>>

\* Recv on an open stream enters the loop.
RecvEnter ==
    /\ UNCHANGED config
    /\ pc = "idle"
    /\ ~closed
    /\ perr = "none" \/ nextCalls < MaxFields + 1 + MaxPostCalls
    /\ pc' = "recv"
    /\ UNCHANGED <<assembler, closed, tokenizer, readerCloses, closeOps, ret,
                   history>>

\* Variant: a retry value that does not parse makes Recv return the parse
\* error.
HandleRetry_ReturnsError(v) ==
    IF ParseIntOk(v)
    THEN /\ dirty' = TRUE
         /\ UNCHANGED <<lastEventID, typ, sb>>
         /\ Continue
    ELSE /\ ret' = Returned("Recv", EmptyEvent, "strconv.ErrSyntax")
         /\ pc' = "idle"
         /\ UNCHANGED <<assembler, history>>

\* case parser.FieldNameRetry
HandleRetry(v) ==
    /\ IF ParseIntOk(v)
       THEN dirty' = TRUE
       ELSE UNCHANGED dirty
    /\ UNCHANGED <<lastEventID, typ, sb>>
    /\ Continue

\* The switch on f.Name.
HandleField(f) ==
    CASE f.Name = FieldNameData ->
            /\ sb' = WriteData(f.Value)
            /\ dirty' = TRUE
            /\ UNCHANGED <<lastEventID, typ>>
            /\ Continue
      [] f.Name = FieldNameEvent ->
            /\ typ' = f.Value
            /\ dirty' = TRUE
            /\ UNCHANGED <<lastEventID, sb>>
            /\ Continue
      [] f.Name = FieldNameID ->
            /\ IF NoNullByte(f.Value)
               THEN lastEventID' = f.Value /\ dirty' = TRUE
               ELSE UNCHANGED <<lastEventID, dirty>>
            /\ UNCHANGED <<typ, sb>>
            /\ Continue
      [] f.Name = FieldNameRetry ->
            HandleRetry(f.Value)
      [] OTHER ->
            IF dirty
            THEN YieldEvent
            ELSE UNCHANGED assembler /\ Continue

\* One iteration of the loop in which parser.Next delivers a field.
RecvField ==
    /\ UNCHANGED config
    /\ pc = "recv"
    /\ ParserHasField
    /\ \E f \in Fields :
        /\ consumed' = Append(consumed, f)
        /\ nextCalls' = nextCalls + 1
        /\ UNCHANGED perr
        /\ HandleField(f)
    /\ UNCHANGED <<closed, readerCloses, closeOps>>

\* Variant: only the clean end of input flushes.
FlushAtEnd_OnlyEOF(err) == dirty /\ err = ErrEOF

\* Variant: a dirty assembler flushes whatever the tokenizer reports.
FlushAtEnd_AnyErr(err) == dirty

\* The flush condition at the end of the input.
FlushAtEnd(err) == dirty /\ (err = ErrEOF \/ err = ErrUnexpectedEOF)

\* Variant: the tokenizer's condition is returned as it is, io.EOF is not
\* substituted for the unexpected end.
HandleEnd_ErrVerbatim(err) ==
    IF FlushAtEnd(err)
    THEN YieldEvent
    ELSE /\ ret' = Returned("Recv", EmptyEvent, err)
         /\ exhausted' = (exhausted \/ err \in {ErrEOF, ErrUnexpectedEOF})
         /\ pc' = "idle"
         /\ UNCHANGED <<assembler, events, cuts>>

\* The branch taken when parser.Next returned false and parser.Err() = err.
HandleEnd(err) ==
    IF FlushAtEnd(err)
    THEN YieldEvent
    ELSE /\ IF err # ErrEOF /\ err # ErrUnexpectedEOF
            THEN ret' = Returned("Recv", EmptyEvent, err)
                 /\ UNCHANGED exhausted
            ELSE ret' = Returned("Recv", EmptyEvent, ErrEOF)
                 /\ exhausted' = TRUE
         /\ pc' = "idle"
         /\ UNCHANGED <<assembler, events, cuts>>

\* Variant: Recv closes the source and marks the stream closed when
\* parser.Next returns false.
RecvEnd_ClosesSource ==
    /\ UNCHANGED config
    /\ pc = "recv"
    /\ \E err \in ParserErrs :
        /\ ParserEnds(err)
        /\ perr' = err
        /\ nextCalls' = nextCalls + 1
        /\ UNCHANGED consumed
        /\ HandleEnd(err)
    /\ closed' = TRUE
    /\ readerCloses' = Append(readerCloses, "nil")
    /\ UNCHANGED closeOps

\* One iteration of the loop in which parser.Next returns false; the
\* tokenizer's terminal condition, once reached, stays.
RecvEnd ==
    /\ UNCHANGED config
    /\ pc = "recv"
    /\ \E err \in ParserErrs :
        /\ ParserEnds(err)
        /\ perr' = err
        /\ nextCalls' = nextCalls + 1
        /\ UNCHANGED consumed
        /\ HandleEnd(err)
    /\ UNCHANGED <<closed, readerCloses, closeOps>>

\* Variant: the closed guard is missing, every call closes the source.
Close_NoGuard ==
    /\ UNCHANGED config
    /\ pc = "idle"
    /\ closeOps < MaxCloseCalls
    /\ closeOps' = closeOps + 1
    /\ closed' = TRUE
    /\ \E e \in CloseResults :
        /\ readerCloses' = Append(readerCloses, e)
        /\ ret' = Returned("Close", EmptyEvent, e)
    /\ UNCHANGED <<assembler, tokenizer, pc, history>>

\* Stream.Close
Close ==
    /\ UNCHANGED config
    /\ pc = "idle"
    /\ closeOps < MaxCloseCalls
    /\ closeOps' = closeOps + 1
    /\ IF closed
       THEN /\ ret' = Returned("Close", EmptyEvent, "nil")
            /\ UNCHANGED <<closed, readerCloses>>
       ELSE /\ closed' = TRUE
            /\ \E e \in CloseResults :
                /\ readerCloses' = Append(readerCloses, e)
                /\ ret' = Returned("Close", EmptyEvent, e)
    /\ UNCHANGED <<assembler, tokenizer, pc, history>>

\* Variant: a MaxEventSize of zero is taken as a limit too.
BufferLimit_ZeroAccepted(c) ==
    IF ~c.isNil /\ c.MaxEventSize >= 0
    THEN c.MaxEventSize
    ELSE DefaultMaxEventSize

\* The limit NewStreamWithConfig leaves in the tokenizer: parser.New's
\* default unless cfg != nil && cfg.MaxEventSize > 0.
BufferLimit(c) ==
    IF ~c.isNil /\ c.MaxEventSize > 0
    THEN c.MaxEventSize
    ELSE DefaultMaxEventSize

\* The state before a constructor is called with some configuration.
InitConfig ==
    /\ lastEventID = <<>>
    /\ closed = FALSE
    /\ typ = <<>>
    /\ sb = <<>>
    /\ dirty = FALSE
    /\ perr = "none"
    /\ consumed = <<>>
    /\ nextCalls = 0
    /\ readerCloses = <<>>
    /\ closeOps = 0
    /\ pc = "new"
    /\ ret = Returned("none", EmptyEvent, "nil")
    /\ events = <<>>
    /\ cuts = <<>>
    /\ exhausted = FALSE
    /\ cfg \in Configs
    /\ maxEventSize = 0

\* NewStreamWithConfig(r, cfg)
NewStreamWithConfig ==
    /\ pc = "new"
    /\ pc' = "idle"
    /\ maxEventSize' = BufferLimit(cfg)
    /\ ret' = Returned("NewStreamWithConfig", EmptyEvent, "nil")
    /\ UNCHANGED <<assembler, closed, tokenizer, readerCloses, closeOps,
                   history, cfg>>

\* NewStream(r): NewStreamWithConfig(r, nil)
NewStream ==
    /\ pc = "new"
    /\ pc' = "idle"
    /\ cfg' = NilConfig
    /\ maxEventSize' = BufferLimit(NilConfig)
    /\ ret' = Returned("NewStream", EmptyEvent, "nil")
    /\ UNCHANGED <<assembler, closed, tokenizer, readerCloses, closeOps,
                   history>>

NextConfig == NewStreamWithConfig \/ NewStream

SpecConfig == InitConfig /\ [][NextConfig]_vars

Next == RecvClosed \/ RecvEnter \/ RecvField \/ RecvEnd \/ Close

Spec == Init /\ [][Next]_vars

\* ------------------------------------------------ reference definitions
\* The accumulation window of the i-th returned event: the fields consumed
\* after the previous event was returned, up to the return of this one.
WindowStart(i) == IF i = 1 THEN 0 ELSE cuts[i - 1]
Window(i) == SubSeq(consumed, WindowStart(i) + 1, cuts[i])

HasNUL(v) == \E k \in 1..Len(v) : v[k] = NUL

\* The value of the most recent id field without a null byte in fs.
RECURSIVE StickyID(_)
StickyID(fs) ==
    IF fs = <<>> THEN <<>>
    ELSE LET f == fs[Len(fs)]
         IN  IF f.Name = FieldNameID /\ ~HasNUL(f.Value)
             THEN f.Value
             ELSE StickyID(SubSeq(fs, 1, Len(fs) - 1))

\* The values of the data fields of fs, in arrival order.
RECURSIVE DataValues(_)
DataValues(fs) ==
    IF fs = <<>> THEN <<>>
    ELSE IF Head(fs).Name = FieldNameData
         THEN <<Head(fs).Value>> \o DataValues(Tail(fs))
         ELSE DataValues(Tail(fs))

\* v1, ..., vn with one newline between consecutive values.
RECURSIVE JoinLF(_)
JoinLF(vs) ==
    IF vs = <<>> THEN <<>>
    ELSE IF Len(vs) = 1 THEN vs[1]
         ELSE vs[1] \o <<LF>> \o JoinLF(Tail(vs))

EndsWithLF(d) == Len(d) > 0 /\ d[Len(d)] = LF

HasName(fs, n) == \E k \in 1..Len(fs) : fs[k].Name = n

\* ---------------------------------------------------------------- claims
\* C1: lastEventID is, in every state, the value of the most recent id
\* field without a null byte consumed so far (empty if none), and every
\* event returned by Recv carries the value that held when it was returned.
C1_StickyLastEventID ==
    /\ lastEventID = StickyID(consumed)
    /\ \A i \in 1..Len(events) :
        events[i].LastEventID = StickyID(SubSeq(consumed, 1, cuts[i]))

\* An event whose own window holds no id field inherits a non-empty id.
C1_Witness ==
    \E i \in 1..Len(events) :
        /\ events[i].LastEventID = <<"a">>
        /\ ~HasName(Window(i), FieldNameID)
        /\ HasName(Window(i), FieldNameData)

\* C2: the Data of every returned event whose window holds at least one
\* data field is the values of those fields, in arrival order, joined with
\* one newline between consecutive values.
C2_DataJoined ==
    \A i \in 1..Len(events) :
        LET vs == DataValues(Window(i))
        IN  Len(vs) >= 1 => events[i].Data = JoinLF(vs)

\* An event was built from two data fields with different values.
C2_Witness ==
    \E i \in 1..Len(events) :
        LET vs == DataValues(Window(i))
        IN  Len(vs) = 2 /\ vs[1] # vs[2]

\* C3 as stated: the Data of a returned event never ends with a newline.
C3_NoTrailingNewline ==
    \A i \in 1..Len(events) : ~EndsWithLF(events[i].Data)

\* C3 amended: the Data of a returned event ends with a newline exactly
\* when its window holds at least two data fields and the last of them has
\* an empty value.
C3_TrailingNewlineOnlyForEmptyLast ==
    \A i \in 1..Len(events) :
        LET vs == DataValues(Window(i))
        IN  EndsWithLF(events[i].Data)
                <=> (Len(vs) >= 2 /\ vs[Len(vs)] = <<>>)

\* An event built from an empty and a non-empty data field, without a
\* trailing newline.
C3_Witness ==
    \E i \in 1..Len(events) :
        LET vs == DataValues(Window(i))
        IN  /\ Len(vs) = 2
            /\ vs[1] = <<>>
            /\ vs[2] # <<>>
            /\ ~EndsWithLF(events[i].Data)

\* C4 as stated: a step of Recv that consumes a comment field or a field
\* with an unrecognized name returns no event and leaves the pending state
\* as it was.
C4_CommentHasNoEffect ==
    [][(/\ consumed' # consumed
        /\ consumed'[Len(consumed')].Name
               \in {FieldNameComment, FieldNameUnknown})
       => (UNCHANGED assembler /\ events' = events /\ pc' = "recv")]_vars

\* C5: once the stream is closed, a step changes neither the assembler nor
\* the tokenizer, returns no event, and a Recv returns Event{} and io.EOF.
C5_RecvAfterClose ==
    [][closed =>
        /\ UNCHANGED <<assembler, tokenizer, events, cuts>>
        /\ pc' = "idle"
        /\ ret'.op = "Recv" => ret' = Returned("Recv", EmptyEvent, ErrEOF)]_vars

\* Recv has returned on a closed stream with unread input left and an id
\* carried over.
C5_Witness ==
    /\ closed
    /\ ret = Returned("Recv", EmptyEvent, ErrEOF)
    /\ perr = "none"
    /\ Len(consumed) < MaxFields
    /\ lastEventID # <<>>

\* C6: the byte source is closed exactly once, by the first Close call,
\* which returns the source's result and marks the stream closed whatever
\* that result is; every later Close call returns nil and does not close
\* the source again.
C6_CloseIdempotent ==
    /\ [](Len(readerCloses) = IF closed THEN 1 ELSE 0)
    /\ [](closed <=> closeOps > 0)
    /\ [][closeOps' # closeOps =>
            /\ closed'
            /\ ret'.op = "Close"
            /\ IF closed
               THEN ret'.err = "nil" /\ readerCloses' = readerCloses
               ELSE readerCloses' = <<ret'.err>>]_vars

\* A second Close has returned nil after the first one returned the
\* source's error, with events received before.
C6_Witness ==
    /\ closeOps >= 2
    /\ readerCloses = <<"ErrClose">>
    /\ ret = Returned("Close", EmptyEvent, "nil")
    /\ Len(events) >= 1

\* C7 as stated: once Recv has returned io.EOF for an exhausted source,
\* no later Recv on the open stream calls the tokenizer.
C7_NoTokenizerCallAfterExhaustion ==
    [][(exhausted /\ ~closed) => nextCalls' = nextCalls]_vars

\* C7 amended: once Recv has returned io.EOF for an exhausted source, every
\* later Recv returns Event{} and io.EOF, consumes no field, returns no
\* event and leaves the assembler as it is.
C7_EndOfStreamAfterExhaustion ==
    /\ []((exhausted /\ ret.op = "Recv")
            => ret = Returned("Recv", EmptyEvent, ErrEOF))
    /\ [][exhausted =>
            UNCHANGED <<assembler, consumed, perr, events, cuts>>]_vars

\* A second Recv has returned after the one that reported exhaustion, on
\* an open stream that returned an event before.
C7_Witness ==
    /\ exhausted
    /\ ~closed
    /\ pc = "idle"
    /\ ret.op = "Recv"
    /\ nextCalls >= Len(consumed) + 2
    /\ Len(events) >= 1

\* The buffer with one trailing character removed.
TrimOne(b) == IF b = <<>> THEN b ELSE SubSeq(b, 1, Len(b) - 1)

\* parser.Next returned false in this step.
NextReturnedFalse == nextCalls' # nextCalls /\ consumed' = consumed

\* C8: when the tokenizer reports the clean or the unexpected end of input
\* and dirty is true, Recv returns the pending event with no error and
\* resets the pending state; when dirty is false it returns Event{} and
\* io.EOF; after the end has been reported once no event is returned.
C8_FlushAtEndOfInput ==
    /\ [][(NextReturnedFalse /\ perr' \in {ErrEOF, ErrUnexpectedEOF}) =>
            IF dirty
            THEN /\ ret' = Returned("Recv",
                             [LastEventID |-> lastEventID, Type |-> typ,
                              Data |-> TrimOne(sb)], "nil")
                 /\ events' = Append(events, ret'.event)
                 /\ sb' = <<>> /\ typ' = <<>> /\ ~dirty'
                 /\ lastEventID' = lastEventID
            ELSE /\ ret' = Returned("Recv", EmptyEvent, ErrEOF)
                 /\ events' = events
                 /\ UNCHANGED assembler]_vars
    /\ [][(perr \in {ErrEOF, ErrUnexpectedEOF}) => (events' = events)]_vars

\* The unexpected end flushed an event that no boundary had dispatched,
\* and the next Recv returned io.EOF.
C8_Witness ==
    /\ perr = ErrUnexpectedEOF
    /\ Len(events) >= 1
    /\ cuts[Len(cuts)] = Len(consumed)
    /\ consumed[Len(consumed)].Name = FieldNameData
    /\ exhausted
    /\ ret = Returned("Recv", EmptyEvent, ErrEOF)

\* C9: when the tokenizer reports an error other than the clean or the
\* unexpected end of input, Recv returns that error with Event{}, returns
\* no event and leaves the assembler as it is, dirty or not.
C9_HardErrorNotMasked ==
    [][(NextReturnedFalse /\ perr' \notin {ErrEOF, ErrUnexpectedEOF}) =>
            /\ ret' = Returned("Recv", EmptyEvent, perr')
            /\ events' = events
            /\ UNCHANGED assembler]_vars

\* Recv has returned the size-limit error while data was pending.
C9_Witness ==
    /\ pc = "idle"
    /\ ret = Returned("Recv", EmptyEvent, ErrTooLong)
    /\ dirty
    /\ sb # <<>>

\* A step of Recv that consumed the field f.
ConsumedField(f) == consumed' = Append(consumed, f)

\* fs is a non-empty run of id fields with a null byte.
OnlyNullIDs(fs) ==
    /\ fs # <<>>
    /\ \A k \in 1..Len(fs) : fs[k].Name = FieldNameID /\ HasNUL(fs[k].Value)

\* C10: a step consuming an id field with a null byte changes nothing of
\* the assembler and returns no event; a step consuming an id field without
\* one sets lastEventID to its value and dirty to true; no event comes from
\* a window made only of null-byte id fields and a dispatch boundary.
C10_NullByteIDIgnored ==
    /\ [][\A f \in Fields :
            (ConsumedField(f) /\ f.Name = FieldNameID) =>
                IF HasNUL(f.Value)
                THEN UNCHANGED assembler /\ events' = events
                ELSE /\ lastEventID' = f.Value
                     /\ dirty'
                     /\ UNCHANGED <<typ, sb>>
                     /\ events' = events]_vars
    /\ [](\A i \in 1..Len(events) :
            LET w == Window(i)
            IN  ~(/\ Len(w) >= 2
                  /\ w[Len(w)].Name = FieldNameBoundary
                  /\ OnlyNullIDs(SubSeq(w, 1, Len(w) - 1))))

\* An event whose window holds a null-byte id field after a valid one
\* carries the valid id.
C10_Witness ==
    \E i \in 1..Len(events) :
        LET w == Window(i)
        IN  /\ Len(w) >= 2
            /\ w[1] = Field(FieldNameID, <<"a">>)
            /\ w[2] = Field(FieldNameID, <<"a", NUL>>)
            /\ events[i].LastEventID = <<"a">>

\* The value of the last event (type) field of fs, empty if there is none.
RECURSIVE LastType(_)
LastType(fs) ==
    IF fs = <<>> THEN <<>>
    ELSE LET f == fs[Len(fs)]
         IN  IF f.Name = FieldNameEvent
             THEN f.Value
             ELSE LastType(SubSeq(fs, 1, Len(fs) - 1))

\* C11: the Type of every returned event is the value of the last event
\* field of its own window, and empty when the window holds none: a type is
\* never inherited from an earlier event.
C11_TypeLastWriteWins ==
    \A i \in 1..Len(events) : events[i].Type = LastType(Window(i))

\* An event without a type field follows an event with a non-empty type.
C11_Witness ==
    /\ Len(events) >= 2
    /\ events[1].Type = <<"a">>
    /\ ~HasName(Window(2), FieldNameEvent)
    /\ events[2].Type = <<>>

\* fs without its retry fields.
RECURSIVE WithoutRetry(_)
WithoutRetry(fs) ==
    IF fs = <<>> THEN <<>>
    ELSE IF Head(fs).Name = FieldNameRetry
         THEN WithoutRetry(Tail(fs))
         ELSE <<Head(fs)>> \o WithoutRetry(Tail(fs))

\* C12: a step of Recv that consumes a retry field, valid or not, returns
\* nothing (no error, no event) and changes no content of the pending event;
\* and every returned event whose window holds a data field has the id,
\* type and data that the window without its retry fields determines.
C12_RetryChangesNoContent ==
    /\ [][\A f \in Fields :
            (ConsumedField(f) /\ f.Name = FieldNameRetry) =>
                /\ UNCHANGED <<lastEventID, typ, sb, ret, events>>
                /\ pc' = "recv"]_vars
    /\ [](\A i \in 1..Len(events) :
            LET w == WithoutRetry(Window(i))
                before == WithoutRetry(SubSeq(consumed, 1, WindowStart(i)))
            IN  HasName(w, FieldNameData) =>
                    events[i] = [LastEventID |-> StickyID(before \o w),
                                 Type |-> LastType(w),
                                 Data |-> JoinLF(DataValues(w))])

\* An event was returned, without error, from a window holding a data field
\* and a retry field whose value is not an integer.
C12_Witness ==
    \E i \in 1..Len(events) :
        /\ HasName(Window(i), FieldNameData)
        /\ \E k \in 1..Len(Window(i)) :
            Window(i)[k] = Field(FieldNameRetry, <<"a">>)
        /\ ret = Returned("Recv", events[i], "nil")

\* C13: NewStreamWithConfig leaves the default limit in place for a nil
\* configuration and for a MaxEventSize that is not positive, and installs
\* a positive MaxEventSize as the limit; NewStream leaves the default.
C13_ConfigSelectsLimit ==
    pc = "idle" =>
        /\ ret.op = "NewStreamWithConfig" =>
            /\ (cfg.isNil \/ cfg.MaxEventSize <= 0)
                    => maxEventSize = DefaultMaxEventSize
            /\ (~cfg.isNil /\ cfg.MaxEventSize >= 1)
                    => maxEventSize = cfg.MaxEventSize
        /\ ret.op = "NewStream" => maxEventSize = DefaultMaxEventSize

\* A stream was constructed with a positive MaxEventSize, now its limit.
C13_Witness ==
    /\ pc = "idle"
    /\ ret.op = "NewStreamWithConfig"
    /\ ~cfg.isNil
    /\ cfg.MaxEventSize = 1
    /\ maxEventSize = 1

\* v is a non-empty run of decimal digits.
IsDecimal(v) == v # <<>> /\ \A k \in 1..Len(v) : v[k] \in Digits

\* The fields of fs with one of the four names the assembler accumulates.
Accumulating(fs) ==
    SelectSeq(fs, LAMBDA f : f.Name \in {FieldNameData, FieldNameEvent,
                                          FieldNameID, FieldNameRetry})

OnlyRetry(fs) ==
    fs # <<>> /\ \A k \in 1..Len(fs) : fs[k].Name = FieldNameRetry

\* C14 as stated: a step of Recv that consumes a retry field, whatever its
\* value, leaves dirty true.
C14_RetryAlwaysMarksDirty ==
    [][\A f \in Fields :
        (ConsumedField(f) /\ f.Name = FieldNameRetry) => dirty']_vars

\* C14 amended: a step of Recv that consumes a retry field sets dirty when
\* the value parses as an integer and leaves dirty as it was when it does
\* not; an event whose window accumulated retry fields only has one with an
\* integer value, and has empty Data and Type and the current lastEventID.
C14_RetryMarksDirtyWhenValid ==
    /\ [][\A f \in Fields :
            (ConsumedField(f) /\ f.Name = FieldNameRetry) =>
                dirty' = (dirty \/ IsDecimal(f.Value))]_vars
    /\ [](\A i \in 1..Len(events) :
            LET acc == Accumulating(Window(i))
            IN  OnlyRetry(acc) =>
                    /\ \E k \in 1..Len(acc) : IsDecimal(acc[k].Value)
                    /\ events[i].Data = <<>>
                    /\ events[i].Type = <<>>
                    /\ events[i].LastEventID
                           = StickyID(SubSeq(consumed, 1, cuts[i])))

\* A block holding one retry field with an integer value, ended by the end
\* of the input, produced an event that carries an earlier id.
C14_Witness ==
    \E i \in 1..Len(events) :
        /\ Window(i) = <<Field(FieldNameRetry, <<"1">>)>>
        /\ events[i] = [LastEventID |-> <<"a">>, Type |-> <<>>, Data |-> <<>>]

\* The fields consumed since the last event was returned, or since the
\* stream started.
CurrentWindow ==
    SubSeq(consumed, (IF cuts = <<>> THEN 0 ELSE cuts[Len(cuts)]) + 1,
           Len(consumed))

\* f is a data field, an event field, an id field without a null byte or a
\* retry field with an integer value.
Accumulates(f) ==
    \/ f.Name \in {FieldNameData, FieldNameEvent}
    \/ f.Name = FieldNameID /\ ~HasNUL(f.Value)
    \/ f.Name = FieldNameRetry /\ IsDecimal(f.Value)

\* C15 as stated: dirty is true exactly when a field of any kind has been
\* consumed since the last event was returned or since the stream started.
C15_DirtyIffAnyField == dirty <=> CurrentWindow # <<>>

\* C15 amended: dirty is true exactly when a data field, an event field, an
\* id field without a null byte or a retry field with an integer value has
\* been consumed since the last event was returned or since the stream
\* started.
C15_DirtyIffAccumulatingField ==
    dirty <=> \E k \in 1..Len(CurrentWindow) : Accumulates(CurrentWindow[k])

\* After an event was returned, fields have been consumed that leave dirty
\* false.
C15_Witness ==
    /\ Len(events) >= 1
    /\ CurrentWindow # <<>>
    /\ ~dirty

\* The name of the field delivered in this step.
DeliveredName == consumed'[Len(consumed')].Name

\* C16 as stated: a step of Recv returns an event only when dirty is true
\* and the step consumes a dispatch boundary (a blank line) or meets the
\* clean or unexpected end of input; a dispatch boundary consumed while
\* dirty is false returns nothing and the loop goes on.
C16_EventOnlyAtBoundaryOrEnd ==
    /\ [][events' # events =>
            /\ dirty
            /\ \/ consumed' # consumed /\ DeliveredName = FieldNameBoundary
               \/ NextReturnedFalse /\ perr' \in {ErrEOF, ErrUnexpectedEOF}]_vars
    /\ [][(consumed' # consumed /\ DeliveredName = FieldNameBoundary /\ ~dirty)
            => (events' = events /\ ret' = ret /\ pc' = "recv")]_vars

\* Nothing is pending: dirty is false, the type and the buffer are empty.
NothingPending == ~dirty /\ typ = <<>> /\ sb = <<>>

\* The last call to return was a Recv that returned an event or io.EOF.
RecvReturnedEventOrEOF ==
    pc = "idle" /\ ret.op = "Recv" /\ ret.err \in {"nil", ErrEOF}

\* C17 as stated: whenever dirty is false the pending type and data are
\* empty, and whenever Recv has returned an event or end-of-stream nothing
\* is pending.
C17_NothingPendingAtReturn ==
    /\ ~dirty => (typ = <<>> /\ sb = <<>>)
    /\ RecvReturnedEventOrEOF => NothingPending

\* C17 amended: whenever dirty is false the pending type and data are
\* empty, and whenever Recv has returned an event or end-of-stream nothing
\* is pending, unless the stream is closed and the tokenizer had reported a
\* hard error (the closed guard then returns end-of-stream over the state
\* the error left).
C17_NothingPendingUnlessClosedAfterError ==
    /\ ~dirty => (typ = <<>> /\ sb = <<>>)
    /\ RecvReturnedEventOrEOF =>
        \/ NothingPending
        \/ closed /\ ret.err = ErrEOF /\ perr \in {ErrTooLong, ErrIO}

\* The second of two events was returned with nothing pending and without
\* the data of the first.
C17_Witness ==
    /\ Len(events) = 2
    /\ events[1].Data # <<>>
    /\ events[2].Data = <<>>
    /\ pc = "idle"
    /\ ret = Returned("Recv", events[2], "nil")
    /\ NothingPending

\* The reference segmentation of a field sequence: the blocks between
\* blank lines, each block that accumulated something giving one event with
\* the id in force, the last type and the joined data of the block; id, ty,
\* ds and acc are the id in force, the type, the data values and whether
\* anything was accumulated in the block so far.
RECURSIVE Segment(_, _, _, _, _)
Segment(fs, id, ty, ds, acc) ==
    LET ev == [LastEventID |-> id, Type |-> ty, Data |-> JoinLF(ds)]
    IN  IF fs = <<>>
        THEN IF acc THEN <<ev>> ELSE <<>>
        ELSE LET f == Head(fs)
                 rest == Tail(fs)
             IN  CASE f.Name = FieldNameBoundary ->
                        IF acc
                        THEN <<ev>> \o Segment(rest, id, <<>>, <<>>, FALSE)
                        ELSE Segment(rest, id, ty, ds, acc)
                   [] f.Name = FieldNameData ->
                        Segment(rest, id, ty, Append(ds, f.Value), TRUE)
                   [] f.Name = FieldNameEvent ->
                        Segment(rest, id, f.Value, ds, TRUE)
                   [] f.Name = FieldNameID /\ ~HasNUL(f.Value) ->
                        Segment(rest, f.Value, ty, ds, TRUE)
                   [] f.Name = FieldNameRetry /\ IsDecimal(f.Value) ->
                        Segment(rest, id, ty, ds, TRUE)
                   [] OTHER ->
                        Segment(rest, id, ty, ds, acc)

ReferenceEvents(fs) == Segment(fs, <<>>, <<>>, <<>>, FALSE)

\* C18 as stated: once Recv has returned end-of-stream on an input ended by
\* the clean end of input, the events returned are, in order, the reference
\* segmentation of the fields at the dispatch boundaries.
C18_EventsAreReferenceSegmentation ==
    (exhausted /\ perr = ErrEOF) => events = ReferenceEvents(consumed)

\* The number of dispatch boundaries (blank lines) in fs.
RECURSIVE NumBoundaries(_)
NumBoundaries(fs) ==
    IF fs = <<>> THEN 0
    ELSE (IF Head(fs).Name = FieldNameBoundary THEN 1 ELSE 0)
         + NumBoundaries(Tail(fs))

\* C19 as stated (its bound on the events): the events Recv has returned are
\* never more than the dispatch boundaries consumed plus one.
C19_EventsBoundedByBoundaries ==
    Len(events) <= NumBoundaries(consumed) + 1

\* C20: the stream is marked closed, and the source's Close has been
\* called (once), exactly when Stream.Close has been called; no step of
\* Recv does either, whatever it returns.
C20_OnlyCloseCloses ==
    /\ closed <=> closeOps > 0
    /\ Len(readerCloses) = IF closeOps > 0 THEN 1 ELSE 0
    /\ (pc = "recv" \/ closeOps = 0) => (~closed /\ readerCloses = <<>>)

\* The source was closed once by a Close called after Recv had returned a
\* hard error from the tokenizer.
C20_Witness ==
    /\ perr = ErrIO
    /\ closeOps = 1
    /\ ret.op = "Close"
    /\ closed
    /\ Len(readerCloses) = 1

====
